---- MODULE Spec2Model ----
(***************************************************************************)
(* A model of main.py, the exporter that turns a Steam Workshop collection *)
(* into three lists (workshop ids, mod ids, map folders).                  *)
(*                                                                         *)
(* Text is modelled as a sequence of one-character strings.  A description *)
(* is a sequence of tokens: the keys "Mod ID:" / "Map Folder:" (in two     *)
(* spellings, to exercise re.IGNORECASE), the marker "[/hr]", the          *)
(* whitespace characters " " and "\n", and the letters "a" and "b".        *)
(***************************************************************************)
EXTENDS Integers, Sequences, FiniteSets, TLC

VARIABLES
    pc,            \* position of the program
    children,      \* upstream answer of GetCollectionDetails: the member list
    mods,          \* main: mods, the resolved item ids
    batch_size,    \* get_mods_data: batch_size
    i,             \* get_mods_data: loop variable of range(0, len, batch_size)
    files,         \* get_mods_data: items of the current response still to do
    file,          \* get_mod_info: the item being processed
    mod_ids,       \* get_mod_info: mod_ids
    map_ids,       \* get_mod_info: map_ids
    cands,         \* history: the two candidate lists right after line 88
    selected,      \* select_user_choice: the text the operator typed last
    prompts,       \* history: the item types of the input() calls of this item
    all_mods,      \* get_mods_data: all_mods
    mods_data,     \* main: mods_data
    workshop_ids,  \* main: workshop_ids
    out_mod_ids,   \* main: mod_ids
    maps,          \* main: maps
    exported,      \* arguments export_to_file was called with, or NotCalled
    vanilla,       \* main: what ask_yes_no returned
    error,         \* the exception that reached the handler of main, or None
    log,           \* history: retrieval calls and pauses of get_mods_data
    items,         \* argument of the function under test
    result,        \* value returned by the function under test
    again          \* value returned by applying the function to result

vars == <<pc, children, mods, batch_size, i, files, file, mod_ids, map_ids,
          cands, selected, prompts, all_mods, mods_data, workshop_ids,
          out_mod_ids, maps, exported, vanilla, error, log, items, result,
          again>>

-----------------------------------------------------------------------------
(* Bounds of the model *)

MaxLen == 4          \* longest list given to remove_duplicates
MaxDescLen == 4      \* longest description (in tokens) given to re.findall
MaxLines == 4        \* most lines of a description given to get_mod_info
MaxInputLen == 3     \* longest operator input, in characters
MaxItems == 3        \* longest list given to select_user_choice
MaxPrompts == 2      \* most input() calls modelled for one item
MaxChildren == 3     \* most members of the collection
MaxBatch == 2        \* largest batch_size

-----------------------------------------------------------------------------
(* Values *)

\* An optional value is a sequence of length 0 (absent) or 1 (present).
None == "None"

Min(a, b) == IF a < b THEN a ELSE b

Range(s) == {s[k] : k \in 1..Len(s)}

SeqsUpTo(S, n) == UNION {[1..k -> S] : k \in 0..n}

NoDuplicates(s) == \A p, q \in 1..Len(s) : p # q => s[p] # s[q]

RECURSIVE Concat(_)
Concat(ss) == IF ss = <<>> THEN <<>> ELSE Head(ss) \o Concat(Tail(ss))

-----------------------------------------------------------------------------
(* Python str methods, on sequences of characters or tokens *)

Whitespace == {" ", "\n", "\r"}

\* str.strip(): leading and trailing whitespace removed
RECURSIVE lstrip(_)
lstrip(s) ==
    IF s # <<>> /\ Head(s) \in Whitespace THEN lstrip(Tail(s)) ELSE s

RECURSIVE rstrip(_)
rstrip(s) ==
    IF s # <<>> /\ s[Len(s)] \in Whitespace
    THEN rstrip(SubSeq(s, 1, Len(s) - 1)) ELSE s

strip(s) == rstrip(lstrip(s))

\* str.replace(t, ''), for a one-token t
replace(s, t) == SelectSeq(s, LAMBDA c : c # t)

\* str.lower(), on the letters the inputs are made of
LowerChar(c) == CASE c = "A" -> "a" [] c = "L" -> "l" [] OTHER -> c
lower(s) == [k \in 1..Len(s) |-> LowerChar(s[k])]

\* str.split(','): the pieces between the commas, empty pieces kept
RECURSIVE split(_)
split(s) ==
    IF \A k \in 1..Len(s) : s[k] # ","
    THEN <<s>>
    ELSE LET c == CHOOSE k \in 1..Len(s) :
                      s[k] = "," /\ \A j \in 1..(k - 1) : s[j] # ","
         IN <<SubSeq(s, 1, c - 1)>> \o split(SubSeq(s, c + 1, Len(s)))

Digits == {"0", "1", "2", "3"}
DigitValue(c) == CASE c = "0" -> 0 [] c = "1" -> 1 [] c = "2" -> 2 [] OTHER -> 3

\* int(t): the value of a non-empty string of digits, ValueError otherwise
RECURSIVE DecimalValue(_)
DecimalValue(t) ==
    IF t = <<>> THEN 0
    ELSE 10 * DecimalValue(SubSeq(t, 1, Len(t) - 1)) + DigitValue(t[Len(t)])

\* whether int(t) returns: t is a non-empty string of digits
is_decimal(t) == t # <<>> /\ \A k \in 1..Len(t) : t[k] \in Digits

int(t) == DecimalValue(t)

-----------------------------------------------------------------------------
(* remove_duplicates, main.py lines 74-77 *)

\* the comprehension of line 77: x is kept when it is not yet in seen
RECURSIVE keep_unseen(_, _)
keep_unseen(xs, seen) ==
    IF xs = <<>> THEN <<>>
    ELSE IF Head(xs) \in seen
         THEN keep_unseen(Tail(xs), seen)
         ELSE <<Head(xs)>> \o keep_unseen(Tail(xs), seen \cup {Head(xs)})

\* a variant that remembers only the element seen last
RECURSIVE keep_unseen_last_only(_, _)
keep_unseen_last_only(xs, seen) ==
    IF xs = <<>> THEN <<>>
    ELSE IF Head(xs) \in seen
         THEN keep_unseen_last_only(Tail(xs), seen)
         ELSE <<Head(xs)>> \o keep_unseen_last_only(Tail(xs), {Head(xs)})

remove_duplicates_adjacent(xs) == keep_unseen_last_only(xs, {})

remove_duplicates(xs) == keep_unseen(xs, {})

-----------------------------------------------------------------------------
(* re.findall(r'<Key>:\s*(.+)', description, re.IGNORECASE), lines 84-85 *)

ModKeys == {"Mod ID:", "mod id:"}
MapKeys == {"Map Folder:", "map folder:"}

\* the index of the last token of the line that position p lies on
RECURSIVE LineEnd(_, _)
LineEnd(d, p) ==
    IF p < Len(d) /\ d[p + 1] # "\n" THEN LineEnd(d, p + 1) ELSE p

\* After a key at position p, \s* is greedy and gives back whitespace until
\* (.+) finds a token that is not a newline: the group starts at the last
\* position q > p with only whitespace in between and d[q] not a newline.
GroupStarts(d, p) ==
    {q \in (p + 1)..Len(d) :
        /\ d[q] # "\n"
        /\ \A j \in (p + 1)..(q - 1) : d[j] \in Whitespace
        /\ \/ d[q] \notin Whitespace
           \/ \A j \in (q + 1)..Len(d) : d[j] \in Whitespace}

GroupStart(d, p) ==
    LET qs == GroupStarts(d, p)
    IN IF \E q \in qs : d[q] \notin Whitespace
       THEN CHOOSE q \in qs : d[q] \notin Whitespace
       ELSE CHOOSE q \in qs : \A r \in qs : r <= q

\* the groups of the successive non-overlapping matches, scanning from p
RECURSIVE findall_from(_, _, _)
findall_from(keys, d, p) ==
    IF p > Len(d) THEN <<>>
    ELSE IF d[p] \in keys /\ GroupStarts(d, p) # {}
         THEN LET q == GroupStart(d, p)
                  e == LineEnd(d, q)
              IN <<SubSeq(d, q, e)>> \o findall_from(keys, d, e + 1)
         ELSE findall_from(keys, d, p + 1)

findall(keys, d) == findall_from(keys, d, 1)

\* file.get('description', ''), line 82
description(f) == IF f.description = <<>> THEN <<>> ELSE f.description[1]

\* the clean-up of each match on lines 87-88
clean(m) == replace(replace(replace(strip(m), "\r"), "\n"), "[/hr]")

cleaned(ms) == [k \in 1..Len(ms) |-> clean(ms[k])]

-----------------------------------------------------------------------------
(* Values the variables hold while the part they belong to is not running *)

NoFile == [title |-> "", description |-> <<>>, publishedfileid |-> None]
NoCands == [mod |-> <<>>, map |-> <<>>]
NoAnswer == [status |-> None, children |-> <<>>]

PipeIdle ==
    /\ children = NoAnswer /\ mods = <<>> /\ batch_size = 1 /\ i = 0
    /\ files = <<>> /\ all_mods = <<>> /\ mods_data = <<>>
    /\ workshop_ids = <<>> /\ out_mod_ids = <<>> /\ maps = <<>>
    /\ exported = <<>> /\ vanilla = None /\ error = None /\ log = <<>>

ItemIdle ==
    /\ file = NoFile /\ mod_ids = <<>> /\ map_ids = <<>> /\ cands = NoCands
    /\ selected = <<>> /\ prompts = <<>>

FunIdle == items = <<>> /\ result = <<>> /\ again = <<>>

pipeVars == <<children, mods, batch_size, i, files, all_mods, mods_data,
              workshop_ids, out_mod_ids, maps, exported, vanilla, error, log>>
itemVars == <<file, mod_ids, map_ids, cands, selected, prompts>>
funVars == <<items, result, again>>

-----------------------------------------------------------------------------
(* remove_duplicates applied to every short list, and to its own result *)

Elements == {"a", "b", "c"}

InitDedup ==
    /\ pc = "call"
    /\ items \in SeqsUpTo(Elements, MaxLen)
    /\ result = <<>> /\ again = <<>>
    /\ PipeIdle /\ ItemIdle

Dedup ==
    /\ pc = "call"
    /\ result' = remove_duplicates(items)
    /\ pc' = "returned"
    /\ UNCHANGED <<items, again, pipeVars, itemVars>>

DedupAgain ==
    /\ pc = "returned"
    /\ again' = remove_duplicates(result)
    /\ pc' = "returned twice"
    /\ UNCHANGED <<items, result, pipeVars, itemVars>>

NextDedup == Dedup \/ DedupAgain

SpecDedup == InitDedup /\ [][NextDedup]_vars

\* the position in s of the first occurrence of x
FirstIndex(s, x) == CHOOSE k \in 1..Len(s) : s[k] = x /\ \A j \in 1..(k - 1) : s[j] # x

\* C8: remove_duplicates(s) holds each distinct element of s exactly once, in
\* the order of first appearance in s, and applying it again changes nothing.
C8_DedupFirstOccurrenceIdempotent ==
    /\ pc \in {"returned", "returned twice"} =>
          /\ NoDuplicates(result)
          /\ Range(result) = Range(items)
          /\ \A p, q \in 1..Len(result) :
                p < q => FirstIndex(items, result[p]) < FirstIndex(items, result[q])
    /\ pc = "returned twice" => again = result

\* a list with a repeated element that is not adjacent to its first occurrence
C8_Witness ==
    /\ pc = "returned twice"
    /\ Len(items) = MaxLen
    /\ items[1] = items[3] /\ items[1] # items[2]
    /\ Len(result) < Len(items)

-----------------------------------------------------------------------------
(* The two re.findall calls and the clean-up, on every short description *)

DescTokens == {"Mod ID:", "mod id:", "Map Folder:", "a", "b", " ", "\n", "[/hr]"}

InitExtract ==
    /\ pc = "findall"
    /\ file \in [title : {"T"}, publishedfileid : {"1"},
                 description : {<<d>> : d \in SeqsUpTo(DescTokens, MaxDescLen)}]
    /\ mod_ids = <<>> /\ map_ids = <<>> /\ cands = NoCands
    /\ selected = <<>> /\ prompts = <<>>
    /\ PipeIdle /\ FunIdle

\* lines 84-85
FindAllFields ==
    /\ pc = "findall"
    /\ mod_ids' = findall(ModKeys, description(file))
    /\ map_ids' = findall(MapKeys, description(file))
    /\ pc' = "found"
    /\ UNCHANGED <<file, cands, selected, prompts, pipeVars, funVars>>

\* lines 87-88
CleanAndDedup ==
    /\ pc = "found"
    /\ mod_ids' = remove_duplicates(cleaned(mod_ids))
    /\ map_ids' = remove_duplicates(cleaned(map_ids))
    /\ pc' = "deduplicated"
    /\ UNCHANGED <<file, cands, selected, prompts, pipeVars, funVars>>

NextExtract == FindAllFields \/ CleanAndDedup

SpecExtract == InitExtract /\ [][NextExtract]_vars

\* the lines of a text: the pieces between the newlines
RECURSIVE Lines(_)
Lines(d) ==
    IF \A k \in 1..Len(d) : d[k] # "\n"
    THEN <<d>>
    ELSE LET c == CHOOSE k \in 1..Len(d) :
                      d[k] = "\n" /\ \A j \in 1..(k - 1) : d[j] # "\n"
         IN <<SubSeq(d, 1, c - 1)>> \o Lines(SubSeq(d, c + 1, Len(d)))

\* the cleaned values of the lines that begin with a key, in line order
LineValues(keys, d) ==
    LET ls == SelectSeq(Lines(d), LAMBDA l : l # <<>> /\ Head(l) \in keys)
    IN [k \in 1..Len(ls) |-> clean(Tail(ls[k]))]

NonEmpty(vs) == SelectSeq(vs, LAMBDA v : v # <<>>)

\* C7: the candidates found before deduplication are exactly the values of
\* the lines that begin with the key, in line order; nothing is taken from a
\* line where the key is not at the start, nor from the line after a key with
\* an empty value.  (Empty values are left out on both sides, so that only
\* the text of the candidates is compared.)
C7_CandidatesAreKeyLineValues ==
    pc = "found" =>
        /\ NonEmpty(cleaned(mod_ids)) = NonEmpty(LineValues(ModKeys, description(file)))
        /\ NonEmpty(cleaned(map_ids)) = NonEmpty(LineValues(MapKeys, description(file)))

-----------------------------------------------------------------------------
(* select_user_choice, lines 52-72 *)

All == <<"a", "l", "l">>

\* line 64: selected.lower() == 'all', selected being the stripped input
is_all(inp) == lower(strip(inp)) = All

\* line 68: the pieces i.strip() for i in selected.split(',')
tokens(inp) ==
    LET ps == split(strip(inp)) IN [k \in 1..Len(ps) |-> strip(ps[k])]

\* line 68 raises ValueError when int() rejects one of the pieces
raises_ValueError(inp) ==
    ~is_all(inp) /\ \E k \in 1..Len(tokens(inp)) : ~is_decimal(tokens(inp)[k])

\* line 68: indices = [int(i.strip()) - 1 ...]
indices(inp) == [k \in 1..Len(tokens(inp)) |-> int(tokens(inp)[k]) - 1]

\* line 69: the filter 0 <= i < len(items)
in_range(ix, xs) == 0 <= ix /\ ix < Len(xs)

\* lines 64-69: the list returned for an input that raises no ValueError
select_user_choice(xs, inp) ==
    IF is_all(inp) THEN xs
    ELSE LET ix == SelectSeq(indices(inp), LAMBDA j : in_range(j, xs))
         IN [k \in 1..Len(ix) |-> xs[ix[k] + 1]]

InputChars == {"0", "1", "2", "3", ",", " ", "x"}
AllInputs == {All, <<"A", "L", "L">>, <<" ", "A", "l", "l", " ">>}
Inputs == SeqsUpTo(InputChars, MaxInputLen) \cup AllInputs

InitSelect ==
    /\ pc = "select"
    /\ items \in {xs \in SeqsUpTo(Elements, MaxItems) : NoDuplicates(xs)}
    /\ result = <<>> /\ again = <<>>
    /\ file = NoFile /\ mod_ids = <<>> /\ map_ids = <<>> /\ cands = NoCands
    /\ selected = <<>> /\ prompts = <<>>
    /\ PipeIdle

\* lines 54-56: an empty list is returned without asking
SelectNothing ==
    /\ pc = "select"
    /\ items = <<>>
    /\ result' = <<>>
    /\ pc' = "returned"
    /\ UNCHANGED <<items, again, itemVars, pipeVars>>

\* lines 58-69: the operator is asked, and the input is accepted
SelectAccepted ==
    /\ pc = "select"
    /\ items # <<>>
    /\ \E inp \in Inputs :
          /\ ~raises_ValueError(inp)
          /\ selected' = inp
          /\ result' = select_user_choice(items, inp)
    /\ prompts' = Append(prompts, "item")
    /\ pc' = "returned"
    /\ UNCHANGED <<items, again, file, mod_ids, map_ids, cands, pipeVars>>

\* lines 58-72: the operator is asked, int() raises ValueError and the
\* function calls itself, which asks again
SelectRejected ==
    /\ pc = "select"
    /\ items # <<>>
    /\ Len(prompts) < MaxPrompts
    /\ \E inp \in Inputs :
          /\ raises_ValueError(inp)
          /\ selected' = inp
    /\ prompts' = Append(prompts, "item")
    /\ pc' = "select"
    /\ UNCHANGED <<items, result, again, file, mod_ids, map_ids, cands, pipeVars>>

NextSelect == SelectNothing \/ SelectAccepted \/ SelectRejected

SpecSelect == InitSelect /\ [][NextSelect]_vars

\* an input is valid when it is a comma list of numbers that are all
\* indices of the displayed list, 1..len(items)
ValidIndexList(xs, inp) ==
    \A k \in 1..Len(tokens(inp)) :
        /\ is_decimal(tokens(inp)[k])
        /\ int(tokens(inp)[k]) \in 1..Len(xs)

\* C1: with more than one candidate, an input that is not 'all' and is
\* invalid (non-numeric token, index outside 1..len, malformed list) is asked
\* again: no result is ever returned for an input with such an index.
C1_InvalidInputNeverReturns ==
    (pc = "returned" /\ Len(items) > 1) =>
        (is_all(selected) \/ ValidIndexList(items, selected))

-----------------------------------------------------------------------------
(* get_mod_info, lines 79-109 *)

\* a variant that asks whenever there is a candidate at all
needs_choice_when_nonempty(xs) == Len(xs) > 0

\* lines 90 and 96: the operator is asked when len(...) > 1
needs_choice(xs) == Len(xs) > 1

\* lines 102-107: the record returned
record(f, mods_, maps_) ==
    [title |-> f.title, workshop_id |-> f.publishedfileid,
     mod_ids |-> mods_, map_ids |-> maps_]

\* lines 82-90: both fields are extracted, cleaned and deduplicated
GetModInfo ==
    /\ pc = "get_mod_info"
    /\ LET ms == remove_duplicates(cleaned(findall(ModKeys, description(file))))
           fs == remove_duplicates(cleaned(findall(MapKeys, description(file))))
       IN /\ mod_ids' = ms
          /\ map_ids' = fs
          /\ cands' = [mod |-> ms, map |-> fs]
          /\ pc' = IF needs_choice(ms) THEN "choose mod ids"
                   ELSE IF needs_choice(fs) THEN "choose map ids"
                   ELSE "return record"
    /\ UNCHANGED <<file, selected, prompts, pipeVars, funVars>>

\* line 94, the input is accepted: mod_ids becomes the selection
ChooseModIds(Inp) ==
    /\ pc = "choose mod ids"
    /\ \E inp \in Inp :
          /\ ~raises_ValueError(inp)
          /\ selected' = inp
          /\ mod_ids' = select_user_choice(mod_ids, inp)
    /\ prompts' = Append(prompts, "Mod ID")
    /\ pc' = IF needs_choice(map_ids) THEN "choose map ids" ELSE "return record"
    /\ UNCHANGED <<file, map_ids, cands, pipeVars, funVars>>

\* line 94, the input raises ValueError: select_user_choice asks again
RejectModIds(Inp) ==
    /\ pc = "choose mod ids"
    /\ Len(prompts) < MaxPrompts
    /\ \E inp \in Inp :
          /\ raises_ValueError(inp)
          /\ selected' = inp
    /\ prompts' = Append(prompts, "Mod ID")
    /\ UNCHANGED <<pc, file, mod_ids, map_ids, cands, pipeVars, funVars>>

\* line 100, the input is accepted: map_ids becomes the selection
ChooseMapIds(Inp) ==
    /\ pc = "choose map ids"
    /\ \E inp \in Inp :
          /\ ~raises_ValueError(inp)
          /\ selected' = inp
          /\ map_ids' = select_user_choice(map_ids, inp)
    /\ prompts' = Append(prompts, "Map Folder")
    /\ pc' = "return record"
    /\ UNCHANGED <<file, mod_ids, cands, pipeVars, funVars>>

\* line 100, the input raises ValueError: select_user_choice asks again
RejectMapIds(Inp) ==
    /\ pc = "choose map ids"
    /\ Len(prompts) < MaxPrompts
    /\ \E inp \in Inp :
          /\ raises_ValueError(inp)
          /\ selected' = inp
    /\ prompts' = Append(prompts, "Map Folder")
    /\ UNCHANGED <<pc, file, mod_ids, map_ids, cands, pipeVars, funVars>>

\* a variant of the handlers that keeps what was fetched so far
return_partial_results(e) ==
    /\ error' = e
    /\ mods_data' = <<all_mods>>
    /\ pc' = "aggregate"

\* lines 108-109, 133-136 and 194-195: an exception raised while fetching or
\* building a record leaves get_mods_data, and main prints it and ends
raise_in_get_mods_data(e) ==
    /\ error' = e
    /\ mods_data' = <<>>
    /\ pc' = "failed"

\* lines 102-109: the record is returned and appended (line 128), unless the
\* item has no 'publishedfileid'
ReturnRecord ==
    /\ pc = "return record"
    /\ IF file.publishedfileid = None
       THEN /\ raise_in_get_mods_data("KeyError")
            /\ UNCHANGED all_mods
       ELSE /\ all_mods' = Append(all_mods, record(file, mod_ids, map_ids))
            /\ pc' = "next file"
            /\ UNCHANGED <<error, mods_data>>
    /\ UNCHANGED <<children, mods, batch_size, i, files, workshop_ids,
                   out_mod_ids, maps, exported, vanilla, log, itemVars, funVars>>

-----------------------------------------------------------------------------
(* get_mod_info on one item, with every description of a few lines *)

RECURSIVE Join(_)
Join(ls) ==
    IF Len(ls) = 0 THEN <<>>
    ELSE IF Len(ls) = 1 THEN ls[1]
    ELSE ls[1] \o <<"\n">> \o Join(Tail(ls))

LineKinds ==
    {<<"Mod ID:", " ", "a">>, <<"mod id:", "b", "[/hr]">>, <<"Mod ID:", "a", " ">>,
     <<"Map Folder:", " ", "a">>, <<"Map Folder:", "b">>}

ItemDescriptions == {Join(ls) : ls \in SeqsUpTo(LineKinds, MaxLines)}

ItemInputs ==
    {<<"1">>, <<"2">>, <<"2", ",", "1">>, <<"1", ",", "1">>, <<" ", "1", " ">>,
     All, <<"A", "L", "L">>, <<"x">>, <<"3">>, <<"1", ",", ",", "2">>, <<>>}

InitItem ==
    /\ pc = "get_mod_info"
    /\ file \in [title : {"T"}, publishedfileid : {"1", None},
                 description : {<<>>} \cup {<<d>> : d \in ItemDescriptions}]
    /\ mod_ids = <<>> /\ map_ids = <<>> /\ cands = NoCands
    /\ selected = <<>> /\ prompts = <<>>
    /\ PipeIdle /\ FunIdle

NextItem ==
    \/ GetModInfo
    \/ ChooseModIds(ItemInputs)
    \/ RejectModIds(ItemInputs)
    \/ ChooseMapIds(ItemInputs)
    \/ RejectMapIds(ItemInputs)
    \/ ReturnRecord

SpecItem == InitItem /\ [][NextItem]_vars

\* C2: the mod_ids and map_ids of every record returned have no duplicate
\* element, whatever the operator typed, and hold only candidates parsed
\* from the item's description.
C2_RecordListsHaveNoDuplicates ==
    \A k \in 1..Len(all_mods) :
        /\ NoDuplicates(all_mods[k].mod_ids)
        /\ NoDuplicates(all_mods[k].map_ids)
        /\ Range(all_mods[k].mod_ids) \subseteq Range(cands.mod)
        /\ Range(all_mods[k].map_ids) \subseteq Range(cands.map)

Last(q) == q[Len(q)]

\* C10: for each field, the operator is asked exactly when more than one
\* candidate is left after deduplication; a list of 0 or 1 candidate is kept
\* as it is; a field that was asked about becomes the selection ('1' gives
\* the first candidate alone, 'all' gives all of them in their order); and
\* the mod-id question of an item always comes before its map-folder one.
C10_PromptIffAmbiguous ==
    /\ "Mod ID" \in Range(prompts) => Len(cands.mod) > 1
    /\ "Map Folder" \in Range(prompts) => Len(cands.map) > 1
    /\ pc \in {"choose map ids", "return record", "next file"} =>
          /\ Len(cands.mod) > 1 => "Mod ID" \in Range(prompts)
          /\ Len(cands.mod) <= 1 => mod_ids = cands.mod
    /\ pc \in {"return record", "next file"} =>
          /\ Len(cands.map) > 1 => "Map Folder" \in Range(prompts)
          /\ Len(cands.map) <= 1 => map_ids = cands.map
    /\ \A p, q \in 1..Len(prompts) :
          (prompts[p] = "Map Folder" /\ prompts[q] = "Mod ID") => q < p
    /\ (pc \in {"choose map ids", "return record"} /\ prompts # <<>>
            /\ Last(prompts) = "Mod ID") =>
          /\ selected = <<"1">> => mod_ids = <<cands.mod[1]>>
          /\ selected = All => mod_ids = cands.mod
    /\ (pc = "return record" /\ prompts # <<>> /\ Last(prompts) = "Map Folder") =>
          /\ selected = <<"1">> => map_ids = <<cands.map[1]>>
          /\ selected = All => map_ids = cands.map

\* both fields were asked about, the mod ids first, after a rejected input
C10_Witness ==
    /\ pc = "return record"
    /\ Len(cands.mod) = 2 /\ Len(cands.map) = 2
    /\ prompts = <<"Mod ID", "Mod ID", "Map Folder">>
    /\ mod_ids = cands.mod
    /\ selected = <<"1">> /\ map_ids = <<cands.map[1]>>

-----------------------------------------------------------------------------
(* get_collection_mod_ids, lines 30-50 *)

\* a child of the collection: position k gives its id; it may lack the id,
\* and its filetype is 0 (a file), 2 (a nested collection) or missing
ChildKinds == [has_id : BOOLEAN, filetype : {<<>>, <<0>>, <<2>>}]

child(k, kind) ==
    [publishedfileid |-> IF kind.has_id THEN ToString(k) ELSE None,
     filetype |-> kind.filetype]

ChildLists ==
    UNION {{[k \in 1..n |-> child(k, ks[k])] : ks \in [1..n -> ChildKinds]} :
             n \in 0..MaxChildren}

\* what GetCollectionDetails may answer: an HTTP failure, a body without
\* 'collectiondetails', or details with or without a 'children' list
CollectionAnswers ==
    {[status |-> st, children |-> <<>>] :
        st \in {"RequestException", "no collectiondetails"}}
    \cup {[status |-> "ok", children |-> c] :
            c \in {<<>>} \cup {<<cs>> : cs \in ChildLists}}

\* line 43: .get('children', [])
children_of(answer) ==
    IF answer.children = <<>> THEN <<>> ELSE answer.children[1]

\* a variant that drops only the nested collections
is_not_collection(c) == c.filetype # <<2>>

\* line 44: child.get('filetype') == 0
is_file(c) == c.filetype = <<0>>

\* line 44: the ids of the children that pass the filter, in their order
get_collection_mod_ids(cs) ==
    LET fs == SelectSeq(cs, is_file)
    IN [k \in 1..Len(fs) |-> fs[k].publishedfileid]

\* lines 30-50 and 177, with the handler of lines 194-195
GetCollectionModIds ==
    /\ pc = "start"
    /\ \E answer \in CollectionAnswers :
          /\ children' = answer
          /\ IF answer.status # "ok"
             THEN /\ error' = IF answer.status = "RequestException"
                               THEN "RequestException" ELSE "KeyError"
                  /\ pc' = "failed"
                  /\ UNCHANGED mods
             ELSE LET ids == get_collection_mod_ids(children_of(answer))
                  IN IF \E k \in 1..Len(ids) : ids[k] = None
                     THEN /\ error' = "KeyError"
                          /\ pc' = "failed"
                          /\ UNCHANGED mods
                     ELSE /\ mods' = ids
                          /\ pc' = "resolved"
                          /\ UNCHANGED error
    /\ UNCHANGED <<batch_size, i, files, all_mods, mods_data, workshop_ids,
                   out_mod_ids, maps, exported, vanilla, log, itemVars, funVars>>

-----------------------------------------------------------------------------
(* get_mods_data, lines 111-136 *)

Request(ids) == [op |-> "request", ids |-> ids]
Sleep == [op |-> "sleep", ids |-> <<>>]

\* a variant whose slice is one short
batch_one_short(ids, k, size) == SubSeq(ids, k + 1, Min(k + size - 1, Len(ids)))

\* line 118: mod_ids[i:i + batch_size]
batch(ids, k, size) == SubSeq(ids, k + 1, Min(k + size, Len(ids)))

\* a variant that pauses only between two batches
sleep_between_batches(lg, more) == IF more THEN Append(lg, Sleep) ELSE lg

\* line 130: sleep(delay), whether or not more batches follow
sleep(lg, more) == Append(lg, Sleep)

\* lines 111-115 and 178: the call; the locals of the resolver are gone
EnterGetModsData ==
    /\ pc = "resolved"
    /\ all_mods' = <<>>
    /\ i' = 0
    /\ children' = NoAnswer
    /\ pc' = "loop"
    /\ UNCHANGED <<mods, batch_size, files, mods_data, workshop_ids, out_mod_ids,
                   maps, exported, vanilla, error, log, itemVars, funVars>>

\* lines 117-127: one retrieval call for the batch at i.  files holds the
\* ids of the items of the answer, which come in the order of the request.
RequestBatch ==
    /\ pc = "loop"
    /\ i < Len(mods)
    /\ log' = Append(log, Request(batch(mods, i, batch_size)))
    /\ \E outcome \in {"ok", "RequestException", "KeyError"} :
          IF outcome = "ok"
          THEN /\ files' = batch(mods, i, batch_size)
               /\ pc' = "next file"
               /\ UNCHANGED <<error, mods_data>>
          ELSE /\ raise_in_get_mods_data(outcome)
               /\ UNCHANGED files
    /\ UNCHANGED <<children, mods, batch_size, i, all_mods, workshop_ids,
                   out_mod_ids, maps, exported, vanilla, itemVars, funVars>>

PipeDescriptions ==
    {<<>>,
     <<Join(<<<<"Mod ID:", " ", "a">>, <<"Map Folder:", "b">>>>)>>,
     <<Join(<<<<"Mod ID:", " ", "a">>, <<"mod id:", "b", "[/hr]">>>>)>>,
     <<Join(<<<<"Map Folder:", "b">>, <<"Map Folder:", " ", "a">>,
              <<"Map Folder:", "b">>>>)>>}

PipeInputs == {<<"1">>, <<"1", ",", "1">>, All, <<"x">>}

\* lines 127-128: the next item of the answer is given to get_mod_info; what
\* the answer holds for it is drawn here
NextFile ==
    /\ pc = "next file"
    /\ files # <<>>
    /\ \E d \in PipeDescriptions, has_id \in BOOLEAN :
          file' = [title |-> "T", description |-> d,
                   publishedfileid |-> IF has_id THEN Head(files) ELSE None]
    /\ files' = Tail(files)
    /\ mod_ids' = <<>> /\ map_ids' = <<>> /\ cands' = NoCands
    /\ selected' = <<>> /\ prompts' = <<>>
    /\ pc' = "get_mod_info"
    /\ UNCHANGED <<children, mods, batch_size, i, all_mods, mods_data,
                   workshop_ids, out_mod_ids, maps, exported, vanilla, error,
                   log, funVars>>

\* line 130 and the step of the range of line 117
Pause ==
    /\ pc = "next file"
    /\ files = <<>>
    /\ log' = sleep(log, i + batch_size < Len(mods))
    /\ i' = i + batch_size
    /\ pc' = "loop"
    /\ UNCHANGED <<children, mods, batch_size, files, all_mods, mods_data,
                   workshop_ids, out_mod_ids, maps, exported, vanilla, error,
                   itemVars, funVars>>

\* line 132 and 178: the range is exhausted, all_mods is returned
ReturnAllMods ==
    /\ pc = "loop"
    /\ i >= Len(mods)
    /\ mods_data' = <<all_mods>>
    /\ pc' = "aggregate"
    /\ UNCHANGED <<children, mods, batch_size, i, files, all_mods, workshop_ids,
                   out_mod_ids, maps, exported, vanilla, error, log, itemVars,
                   funVars>>

-----------------------------------------------------------------------------
(* main, lines 170-195 *)

\* a variant that leaves out the records without a mod id
extend_skipping_empty(rs, field) ==
    Concat([k \in 1..Len(rs) |->
              IF rs[k].mod_ids = <<>> THEN <<>> ELSE rs[k][field]])

\* lines 186-187: list.extend with the field of each record in turn
extend(rs, field) == Concat([k \in 1..Len(rs) |-> rs[k][field]])

\* lines 180-187
Aggregate ==
    /\ pc = "aggregate"
    /\ workshop_ids' = [k \in 1..Len(mods_data[1]) |-> mods_data[1][k].workshop_id]
    /\ out_mod_ids' = extend(mods_data[1], "mod_ids")
    /\ maps' = extend(mods_data[1], "map_ids")
    /\ pc' = "ask"
    /\ UNCHANGED <<children, mods, batch_size, i, files, all_mods, mods_data,
                   exported, vanilla, error, log, itemVars, funVars>>

Vanilla == <<"Muldraugh, KY">>

\* lines 189-190: ask_yes_no answers, and 'Muldraugh, KY' is appended on yes
AskYesNo ==
    /\ pc = "ask"
    /\ \E answer \in {"yes", "no"} :
          /\ vanilla' = answer
          /\ maps' = IF answer = "yes" THEN maps \o Vanilla ELSE maps
    /\ pc' = "export"
    /\ UNCHANGED <<children, mods, batch_size, i, files, all_mods, mods_data,
                   workshop_ids, out_mod_ids, exported, error, log, itemVars,
                   funVars>>

\* line 192: export_to_file is called with the three lists
ExportToFile ==
    /\ pc = "export"
    /\ exported' = <<[workshop_ids |-> workshop_ids, mod_ids |-> out_mod_ids,
                      maps |-> maps]>>
    /\ pc' = "done"
    /\ UNCHANGED <<children, mods, batch_size, i, files, all_mods, mods_data,
                   workshop_ids, out_mod_ids, maps, vanilla, error, log,
                   itemVars, funVars>>

Init ==
    /\ pc = "start"
    /\ children = NoAnswer /\ mods = <<>>
    /\ batch_size \in 1..MaxBatch
    /\ i = 0 /\ files = <<>> /\ all_mods = <<>> /\ mods_data = <<>>
    /\ workshop_ids = <<>> /\ out_mod_ids = <<>> /\ maps = <<>>
    /\ exported = <<>> /\ vanilla = None /\ error = None /\ log = <<>>
    /\ ItemIdle /\ FunIdle

Next ==
    \/ GetCollectionModIds
    \/ EnterGetModsData
    \/ RequestBatch
    \/ NextFile
    \/ GetModInfo
    \/ ChooseModIds(PipeInputs)
    \/ RejectModIds(PipeInputs)
    \/ ChooseMapIds(PipeInputs)
    \/ RejectMapIds(PipeInputs)
    \/ ReturnRecord
    \/ Pause
    \/ ReturnAllMods
    \/ Aggregate
    \/ AskYesNo
    \/ ExportToFile

Spec == Init /\ [][Next]_vars

-----------------------------------------------------------------------------
(* Properties of the whole run *)

Requests == SelectSeq(log, LAMBDA e : e.op = "request")

Requested == Concat([k \in 1..Len(Requests) |-> Requests[k].ids])

\* ceil(n / size)
Ceil(n, size) == (n + size - 1) \div size

Returned == pc \in {"aggregate", "ask", "export", "done"}

\* the total length of the field over the first k records
RECURSIVE SumLen(_, _, _)
SumLen(rs, field, k) ==
    IF k = 0 THEN 0 ELSE SumLen(rs, field, k - 1) + Len(rs[k][field])

\* out is made of the field of each record, one record after the other
IsAggregate(out, rs, field) ==
    /\ Len(out) = SumLen(rs, field, Len(rs))
    /\ \A k \in 1..Len(rs) :
          SubSeq(out, SumLen(rs, field, k - 1) + 1, SumLen(rs, field, k))
              = rs[k][field]

\* C3 as stated: the three sequences given to export_to_file are exactly the
\* aggregate of the records: one workshop id per record, and mod_ids and maps
\* made of the records' lists, nothing introduced or dropped.
C3_ExportedIsExactlyTheAggregate ==
    pc = "done" =>
        /\ Len(exported[1].workshop_ids) = Len(mods_data[1])
        /\ \A k \in 1..Len(mods_data[1]) :
              exported[1].workshop_ids[k] = mods_data[1][k].workshop_id
        /\ IsAggregate(exported[1].mod_ids, mods_data[1], "mod_ids")
        /\ IsAggregate(exported[1].maps, mods_data[1], "map_ids")

\* C3 as amended: workshop_ids and mod_ids are exactly the aggregate; maps is
\* the aggregate of the records' map_ids followed by the one entry
\* 'Muldraugh, KY' when ask_yes_no answered yes, and by nothing otherwise.
C3_ExportedIsAggregatePlusVanilla ==
    pc = "done" =>
        LET n == SumLen(mods_data[1], "map_ids", Len(mods_data[1]))
        IN /\ Len(exported[1].workshop_ids) = Len(mods_data[1])
           /\ \A k \in 1..Len(mods_data[1]) :
                 exported[1].workshop_ids[k] = mods_data[1][k].workshop_id
           /\ IsAggregate(exported[1].mod_ids, mods_data[1], "mod_ids")
           /\ Len(exported[1].maps) >= n
           /\ IsAggregate(SubSeq(exported[1].maps, 1, n), mods_data[1], "map_ids")
           /\ SubSeq(exported[1].maps, n + 1, Len(exported[1].maps))
                 = IF vanilla = "yes" THEN Vanilla ELSE <<>>

\* several records with map folders, one of them without mod ids, and yes
C3_Witness ==
    /\ pc = "done"
    /\ vanilla = "yes"
    /\ Len(mods_data[1]) >= 2
    /\ \E k \in 1..Len(mods_data[1]) :
          mods_data[1][k].mod_ids = <<>> /\ Len(mods_data[1][k].map_ids) = 2
    /\ Len(exported[1].mod_ids) >= 2

\* C4: a failed retrieval call, an answer without 'publishedfiledetails' or
\* an item without its id ends the run: get_mods_data returns nothing, not
\* even the records of the batches before, and export_to_file is not called;
\* what is exported covers every id of every batch.
C4_FailureExportsNothing ==
    /\ error # None => (pc = "failed" /\ mods_data = <<>> /\ exported = <<>>)
    /\ pc = "failed" => error # None
    /\ exported # <<>> =>
          /\ error = None
          /\ Requested = mods
          /\ exported[1].workshop_ids = mods

\* a batch fails after an earlier batch had given records
C4_Witness ==
    /\ pc = "failed"
    /\ error = "RequestException"
    /\ Len(Requests) = 2
    /\ all_mods # <<>>

\* C5: get_mods_data forms ceil(n / B) batches, each of 1 to B ids, and the
\* batches in the order requested make up the id list exactly.
C5_BatchesPartitionTheIds ==
    /\ \A k \in 1..Len(Requests) : Len(Requests[k].ids) \in 1..batch_size
    /\ Len(Requested) <= Len(mods)
    /\ Requested = SubSeq(mods, 1, Len(Requested))
    /\ Returned =>
          /\ Len(Requests) = Ceil(Len(mods), batch_size)
          /\ Requested = mods

\* the last batch is shorter than the others
C5_Witness ==
    /\ Returned
    /\ Len(Requests) >= 2
    /\ Len(Requests[Len(Requests)].ids) < batch_size

\* C6: without failure there is one retrieval call per batch and one pause
\* after each batch, the last one included; a call is never made before the
\* pause of the batch before it has ended; with no id at all there is no
\* call and no pause, and the three aggregated sequences are empty.
C6_OneCallAndOnePausePerBatch ==
    /\ \A k \in 1..Len(log) : (log[k].op = "request") <=> (k % 2 = 1)
    /\ Returned =>
          /\ Len(Requests) = Ceil(Len(mods), batch_size)
          /\ Len(log) = 2 * Len(Requests)
    /\ mods = <<>> => log = <<>>
    /\ (pc = "ask" /\ mods = <<>>) =>
          (workshop_ids = <<>> /\ out_mod_ids = <<>> /\ maps = <<>>)

\* three batches were fetched, and the pause after the last one was made
C6_Witness ==
    /\ pc = "aggregate"
    /\ Len(Requests) = 3
    /\ log[Len(log)] = Sleep

\* C9: get_collection_mod_ids returns the ids of the children of filetype 0,
\* in the order of the answer, and nothing else; without children, or with an
\* empty list of them, it returns the empty list and raises nothing.
C9_FileMembersInOrder ==
    LET cs == children_of(children)
        fi == {k \in 1..Len(cs) : cs[k].filetype = <<0>>}
    IN /\ pc = "resolved" =>
             /\ Len(mods) = Cardinality(fi)
             /\ \A p \in 1..Len(mods) :
                   \E k \in fi : /\ Cardinality({j \in fi : j <= k}) = p
                                 /\ mods[p] = cs[k].publishedfileid
       /\ (children.status = "ok" /\ cs = <<>>) =>
             (pc = "resolved" /\ mods = <<>> /\ error = None)

\* two files and one member of another kind: two ids are returned
C9_Witness ==
    /\ pc = "resolved"
    /\ Len(children_of(children)) = 3
    /\ \E k \in 1..3 : children_of(children)[k].filetype # <<0>>
    /\ Len(mods) = 2

====
